---- MODULE Spec2Model ----
(***************************************************************************)
(* A model of the NEXRAD Archive II decoder of package archive2:           *)
(* NewArchive2, Archive2.LoadLDMRecord, Archive2.AddFromLDMRecord and      *)
(* NewMessage31, and of loadArchive2Realtime, which decodes a header chunk *)
(* and then loads the data chunks in parallel.                             *)
(*                                                                         *)
(* Byte streams are modelled byte for byte: a stream is a length and the   *)
(* bytes that are not zero.  The decoder reads exactly the bytes the Go    *)
(* code reads (encoding/binary, big endian, packed structs), so a framing  *)
(* slip shows as a cursor that is off.  A float32 build number b is held   *)
(* as the integer 100*b (RDABuild), so 18 is 1800.                         *)
(***************************************************************************)
EXTENDS Integers, Sequences, FiniteSets, TLC

(***************************************************************************)
(* Program constants and struct sizes (binary.Size of the packed structs). *)
(***************************************************************************)
LegacyCTMHeaderLength == 12
DefaultMetadataRecordLength == 2432
CTMReadLength == 12
MessageHeaderSize == 16
Message2Size == 74
Message2SkipAssumed == 68
Message31HeaderSize == 32
DataBlockSize == 4
VolumeDataSize == 40
ElevationDataSize == 8
RadialDataSize == 24
GenericDataMomentSize == 24
VolumeHeaderSize == 24
SizeWordLength == 4
FirstOffset == 24
MinSupportedBuild == 1800
MinInt32 == (-2147483647) - 1

(***************************************************************************)
(* Byte streams.                                                           *)
(***************************************************************************)
EmptyF == [x \in {} |-> 0]

Frag(n, f) == [len |-> n, nz |-> f]

Shift(f, k) == [q \in {p + k : p \in DOMAIN f} |-> f[q - k]]

Cat(a, b) == [len |-> a.len + b.len, nz |-> a.nz @@ Shift(b.nz, a.len)]

Truncate(s, n) ==
    IF n >= s.len THEN s
    ELSE [len |-> n, nz |-> [p \in {q \in DOMAIN s.nz : q < n} |-> s.nz[p]]]

RECURSIVE CatAll(_)
CatAll(ss) == IF ss = <<>> THEN Frag(0, EmptyF) ELSE Cat(Head(ss), CatAll(Tail(ss)))

ByteAt(s, p) == IF p \in DOMAIN s.nz THEN s.nz[p] ELSE 0

\* binary.BigEndian.Uint16 of the two bytes at p
U16(s, p) == 256 * ByteAt(s, p) + ByteAt(s, p + 1)

\* big-endian bytes of a 16-bit value, written at p
PutU16(p, v) == (p :> (v \div 256)) @@ ((p + 1) :> (v % 256))

(***************************************************************************)
(* io.ReadFull on the decompressed stream r at cursor pos.  r.term says    *)
(* how the stream ends: "eof" (the bzip2 stream ends cleanly) or "err"     *)
(* (the decompressor reports an error, e.g. a truncated or corrupt body).  *)
(* Result: the error and the new cursor.                                   *)
(***************************************************************************)
ReadFull(r, pos, n) ==
    IF n = 0 THEN [err |-> "nil", pos |-> pos]
    ELSE IF pos + n <= r.len THEN [err |-> "nil", pos |-> pos + n]
    ELSE IF r.term = "err" THEN [err |-> "bzip", pos |-> r.len]
    ELSE IF pos >= r.len THEN [err |-> "EOF", pos |-> r.len]
    ELSE [err |-> "ErrUnexpectedEOF", pos |-> r.len]

(***************************************************************************)
(* Data block names (3 ASCII bytes).                                       *)
(***************************************************************************)
NameVOL == <<86, 79, 76>>
NameELV == <<69, 76, 86>>
NameRAD == <<82, 65, 68>>
NameREF == <<82, 69, 70>>
NameVEL == <<86, 69, 76>>
NameSW == <<83, 87, 32>>
NameZDR == <<90, 68, 82>>
NamePHI == <<80, 72, 73>>
NameRHO == <<82, 72, 79>>
NameCFP == <<67, 70, 80>>
NameFOO == <<70, 79, 79>>
NameLowerVol == <<118, 111, 108>>

MomentNamesAndFOO ==
    {NameREF, NameVEL, NameSW, NameZDR, NamePHI, NameRHO, NameCFP, NameFOO}

MomentNames == {NameREF, NameVEL, NameSW, NameZDR, NamePHI, NameRHO, NameCFP}

(***************************************************************************)
(* Message 2.  A pointer is a sequence of length 0 (nil) or 1.             *)
(***************************************************************************)
NilPtr == <<>>

ZeroMessage2 == [RDAStatus |-> 0, RDABuild |-> 0]

\* binary.Read(bzipReader, binary.BigEndian, loadedRecord.M2): the struct is
\* filled only when all of its bytes could be read.
DecodeMessage2(r, pos) ==
    IF ReadFull(r, pos, Message2Size).err = "nil"
    THEN [RDAStatus |-> U16(r, pos), RDABuild |-> U16(r, pos + 18)]
    ELSE ZeroMessage2

\* Message2.GetBuildNumber: RDABuild / 100 as a float, held here as 100 * build.
GetBuildNumber(m2) == m2.RDABuild

(***************************************************************************)
(* Message 31.                                                             *)
(***************************************************************************)
\* the map pointersPerBuild: a key that is absent reads as 0
pointersPerBuild(build) ==
    IF build = 1800 THEN 9 ELSE IF build = 1900 THEN 10 ELSE 0

ZeroHeader31 == [AzimuthNumber |-> 0, ElevationNumber |-> 0, DataBlockCount |-> 0]

DecodeHeader31(r, pos) ==
    IF ReadFull(r, pos, Message31HeaderSize).err = "nil"
    THEN [AzimuthNumber |-> U16(r, pos + 10),
          ElevationNumber |-> ByteAt(r, pos + 22),
          DataBlockCount |-> U16(r, pos + 30)]
    ELSE ZeroHeader31

ZeroMoment == [NumberDataMomentGates |-> 0, DataWordSize |-> 0]

DecodeGenericDataMoment(r, pos) ==
    IF ReadFull(r, pos, GenericDataMomentSize).err = "nil"
    THEN [NumberDataMomentGates |-> U16(r, pos + 4), DataWordSize |-> ByteAt(r, pos + 15)]
    ELSE ZeroMoment

\* dataMomentSize := m.NumberDataMomentGates * uint16(m.DataWordSize) / 8, in uint16
DataMomentSize(m) == ((m.NumberDataMomentGates * m.DataWordSize) % 65536) \div 8

\* io.ReadFull(r, data): the bytes that could be read, the rest stays 0
ReadData(r, pos, n) == [i \in 1..n |-> IF pos + i - 1 < r.len THEN ByteAt(r, pos + i - 1) ELSE 0]

\* a payload's first 16-bit field (LRTUP), 0 when the payload could not be read
DecodeLRTUP(r, pos, n) == IF ReadFull(r, pos, n).err = "nil" THEN U16(r, pos) ELSE 0

PayloadSize(name) ==
    IF name = NameVOL THEN VolumeDataSize
    ELSE IF name = NameELV THEN ElevationDataSize
    ELSE RadialDataSize

\* One pass of the data block loop and, recursively, the passes after it.
\* m31.short is a ghost: some read that built this radial came up short.
RECURSIVE DataBlocks(_, _, _, _, _)
DataBlocks(r, pos, i, count, m31) ==
    IF i >= count THEN [err |-> "nil", m31 |-> <<m31>>, pos |-> pos]
    ELSE LET d == ReadFull(r, pos, DataBlockSize)
             name == <<ByteAt(r, pos + 1), ByteAt(r, pos + 2), ByteAt(r, pos + 3)>>
         IN IF d.err # "nil" THEN [err |-> d.err, m31 |-> NilPtr, pos |-> d.pos]
            ELSE IF name \in {NameVOL, NameELV, NameRAD}
            THEN LET rd == ReadFull(r, d.pos, PayloadSize(name))
                     key == IF name = NameVOL THEN "VolumeData"
                            ELSE IF name = NameELV THEN "ElevationData" ELSE "RadialData"
                 IN DataBlocks(r, rd.pos, i + 1, count,
                        [m31 EXCEPT ![key] = DecodeLRTUP(r, d.pos, PayloadSize(name)),
                                    !.short = m31.short \/ rd.err # "nil"])
            ELSE IF name \in MomentNames
            THEN LET rm == ReadFull(r, d.pos, GenericDataMomentSize)
                     m == DecodeGenericDataMoment(r, d.pos)
                     n == DataMomentSize(m)
                     rx == ReadFull(r, rm.pos, n)
                     moment == [GenericDataMoment |-> m, Data |-> ReadData(r, rm.pos, n)]
                 IN DataBlocks(r, rx.pos, i + 1, count,
                        [m31 EXCEPT !.Moments = (name :> moment) @@ m31.Moments,
                                    !.short = m31.short \/ rm.err # "nil" \/ rx.err # "nil"])
            ELSE [err |-> "unknown data block", m31 |-> NilPtr, pos |-> d.pos]

\* NewMessage31(r, build) with r at cursor pos: the error, the radial (a pointer)
\* and the cursor afterwards; ptr is a ghost, the length of the pointer table read.
NewMessage31(r, pos, build) ==
    LET rh == ReadFull(r, pos, Message31HeaderSize)
        header == DecodeHeader31(r, pos)
        rp == ReadFull(r, rh.pos, 4 * pointersPerBuild(build))
        m31 == [Header |-> header, VolumeData |-> 0, ElevationData |-> 0, RadialData |-> 0,
                Moments |-> EmptyF, short |-> (rh.err # "nil" \/ rp.err # "nil")]
        res == DataBlocks(r, rp.pos, 0, header.DataBlockCount, m31)
    IN [err |-> res.err, m31 |-> res.m31, pos |-> res.pos,
        ptr |-> 4 * pointersPerBuild(build)]


(***************************************************************************)
(* LDM records.                                                            *)
(***************************************************************************)
\* if ldm.Size < 0 { ldm.Size = -ldm.Size }, in int32
NegateSize(size) ==
    IF size < 0 THEN (IF size = MinInt32 THEN MinInt32 ELSE -size) ELSE size

\* bzip2.NewReader(io.LimitReader(reader, int64(ldm.Size)), nil): the decompressed
\* stream of the record's body.  rec.inner and rec.term say what the body that is
\* in the source decompresses to; a limit that lets no byte through leaves the
\* decompressor without a stream header, which it reports as an error.
BodyReader(rec, Size) ==
    IF Size <= 0 \/ rec.avail = 0
    THEN [len |-> 0, nz |-> EmptyF, term |-> "err"]
    ELSE [len |-> rec.inner.len, nz |-> rec.inner.nz, term |-> rec.term]

NoReader == [len |-> 0, nz |-> EmptyF, term |-> "eof"]

\* the compressed bytes a load that ran to the end of the stream took from the source
BodyConsumed(rec, Size) ==
    IF Size <= 0 THEN 0 ELSE IF rec.avail < Size THEN rec.avail ELSE Size

\* short is a ghost: a read inside a Message 2 or a Message 31 of this record
\* came up short
NewLoadedRecord(Size) == [Size |-> Size, M2 |-> NilPtr, M31s |-> <<>>, short |-> FALSE]

NoMessage == [type |-> -1, start |-> 0, end |-> 0, avail |-> 0, build |-> -1,
              ptr |-> -1, short |-> FALSE, err |-> "nil"]

BuildUnsupportedBelow17(m2) == GetBuildNumber(m2) < 1700

\* if loadedRecord.M2.GetBuildNumber() < 18
BuildUnsupported(m2) == GetBuildNumber(m2) < MinSupportedBuild

HeaderReadEOFNever(err) == FALSE

\* the MessageHeader read failed with io.EOF: no byte of the header was there
HeaderReadEOF(err) == err = "EOF"

\* One pass of the message loop of LoadLDMRecord on reader r at cursor pos, with
\* slot the volume's metadataStatusMessage.  next is "continue", "return" or
\* "panic" (a nil pointer dereference); msg is a ghost describing the pass: the
\* message type (-1 when no header was read), the cursor before and after, the
\* bytes that were left, the build and pointer table length of a Message 31,
\* whether a read came up short, and the error.
LoadMessage(r, pos, lr, slot) ==
    LET c == ReadFull(r, pos, CTMReadLength)
        h == ReadFull(r, c.pos, MessageHeaderSize)
        type == ByteAt(r, c.pos + 3)
        out(next, err, lr2, p2, build, ptr, short) ==
            [next |-> next, err |-> err,
             lr |-> [lr2 EXCEPT !.short = lr.short
                                          \/ (short /\ h.err = "nil" /\ type \in {2, 31})],
             pos |-> p2,
             msg |-> [type |-> IF h.err = "nil" THEN type ELSE -1, start |-> pos,
                      end |-> p2, avail |-> r.len - pos, build |-> build, ptr |-> ptr,
                      short |-> short, err |-> err]]
    IN IF h.err # "nil"
       THEN IF ~HeaderReadEOF(h.err)
            THEN out("return", h.err, lr, h.pos, -1, -1, TRUE)
            ELSE out("return", "nil", lr, h.pos, -1, -1, FALSE)
       ELSE IF type = 2
       THEN LET b == ReadFull(r, h.pos, Message2Size)
                m2 == DecodeMessage2(r, h.pos)
                lr2 == [lr EXCEPT !.M2 = <<m2>>]
                s == ReadFull(r, b.pos, DefaultMetadataRecordLength
                                        - LegacyCTMHeaderLength - 16 - Message2SkipAssumed)
            IN IF BuildUnsupported(m2)
               THEN out("return", "unsupported build", lr2, b.pos, -1, -1, b.err # "nil")
               ELSE out("continue", "nil", lr2, s.pos, -1, -1, s.err # "nil")
       ELSE IF type = 31
       THEN IF slot = NilPtr
            THEN out("panic", "nil", lr, h.pos, -1, -1, FALSE)
            ELSE LET build == GetBuildNumber(slot[1])
                     res == NewMessage31(r, h.pos, build)
                 IN IF res.err # "nil"
                    THEN out("return", res.err, lr, res.pos, build, res.ptr,
                             res.err # "unknown data block")
                    ELSE out("continue", "nil",
                             [lr EXCEPT !.M31s = Append(@, res.m31[1])],
                             res.pos, build, res.ptr, res.m31[1].short)
       ELSE LET s == ReadFull(r, h.pos, DefaultMetadataRecordLength
                                        - LegacyCTMHeaderLength - 16)
            IN out("continue", "nil", lr, s.pos, -1, -1, s.err # "nil")

ScanKeyAzimuth(m31) == m31.Header.AzimuthNumber

\* the key of ar2.ElevationScans a radial is appended under
ScanKey(m31) == m31.Header.ElevationNumber

RECURSIVE AppendScans(_, _)
AppendScansPrepend(es, m31s) ==
    IF m31s = <<>> THEN es
    ELSE LET m == Head(m31s)
             k == ScanKey(m)
         IN AppendScans(IF k \in DOMAIN es THEN [es EXCEPT ![k] = <<m>> \o @]
                        ELSE (k :> <<m>>) @@ es,
                        Tail(m31s))

AppendScansReplace(es, m31s) ==
    IF m31s = <<>> THEN es
    ELSE AppendScans((ScanKey(Head(m31s)) :> <<Head(m31s)>>) @@ es, Tail(m31s))

AppendScans(es, m31s) ==
    IF m31s = <<>> THEN es
    ELSE LET m == Head(m31s)
             k == ScanKey(m)
         IN AppendScans(IF k \in DOMAIN es THEN [es EXCEPT ![k] = Append(@, m)]
                        ELSE (k :> <<m>>) @@ es,
                        Tail(m31s))

AddFromLDMRecordOverwrite(a, lr) ==
    LET a1 == IF lr.M2 # NilPtr
              THEN [a EXCEPT !.metadataStatusMessage = lr.M2]
              ELSE a
    IN [a1 EXCEPT !.ElevationScans = AppendScans(a1.ElevationScans, lr.M31s)]

AddFromLDMRecord(a, lr) ==
    LET a1 == IF lr.M2 # NilPtr /\ a.metadataStatusMessage = NilPtr
              THEN [a EXCEPT !.metadataStatusMessage = lr.M2]
              ELSE a
    IN [a1 EXCEPT !.ElevationScans = AppendScans(a1.ElevationScans, lr.M31s)]


(***************************************************************************)
(* Inputs: byte streams written the way the structs lay them out.          *)
(***************************************************************************)
Block(name, gates, ws, data) == [name |-> name, gates |-> gates, ws |-> ws, data |-> data]

Msg2(build, tag, len) ==
    [t |-> 2, len |-> len, build |-> build, tag |-> tag, elev |-> 0, az |-> 0,
     np |-> 0, dbc |-> 0, blocks |-> <<>>]

Msg31(elev, az, np, dbc, blocks) ==
    [t |-> 31, len |-> 0, build |-> 0, tag |-> 0, elev |-> elev, az |-> az,
     np |-> np, dbc |-> dbc, blocks |-> blocks]

MsgOther(t) ==
    [t |-> t, len |-> DefaultMetadataRecordLength, build |-> 0, tag |-> 0, elev |-> 0,
     az |-> 0, np |-> 0, dbc |-> 0, blocks |-> <<>>]

\* a data block: the 4-byte DataBlock and its payload; the samples of a moment
\* are b.data, followed by zeros up to gates * word size / 8 bytes
EncBlock(b) ==
    LET head == Frag(DataBlockSize,
                     (0 :> 68) @@ (1 :> b.name[1]) @@ (2 :> b.name[2]) @@ (3 :> b.name[3]))
    IN IF b.name \in {NameVOL, NameELV, NameRAD}
       THEN Cat(head, Frag(PayloadSize(b.name), PutU16(0, PayloadSize(b.name) + 4)))
       ELSE IF b.name \in MomentNames
       THEN CatAll(<<head,
                     Frag(GenericDataMomentSize, PutU16(4, b.gates) @@ (15 :> b.ws)),
                     Frag(IF Len(b.data) < (b.gates * b.ws) \div 8
                          THEN (b.gates * b.ws) \div 8 ELSE Len(b.data),
                          [i \in {j \in 0..(Len(b.data) - 1) : b.data[j + 1] # 0} |->
                              b.data[i + 1]])>>)
       ELSE Cat(head, Frag(8, EmptyF))

EncBlocks(bs) == CatAll([i \in 1..Len(bs) |-> EncBlock(bs[i])])

\* the data block pointers: the offset of each block from the Message 31 header
EncPointers(np, bs) ==
    LET at(i) == Message31HeaderSize + 4 * np + EncBlocks(SubSeq(bs, 1, i)).len
        n == IF Len(bs) < np THEN Len(bs) ELSE np
    IN CatAll([i \in 1..np |-> Frag(4, IF i <= n THEN PutU16(2, at(i - 1)) ELSE EmptyF)])

\* a message: 12 bytes of CTM header, the 16-byte MessageHeader, the body
EncMsg(m) ==
    LET ctm == Frag(LegacyCTMHeaderLength, EmptyF)
        hdr == Frag(MessageHeaderSize, (3 :> m.t))
    IN IF m.t = 2
       THEN CatAll(<<ctm, hdr,
                     Frag(m.len - LegacyCTMHeaderLength - MessageHeaderSize,
                          PutU16(0, m.tag) @@ PutU16(18, m.build))>>)
       ELSE IF m.t = 31
       THEN CatAll(<<ctm, hdr,
                     Frag(Message31HeaderSize,
                          PutU16(10, m.az) @@ (22 :> m.elev) @@ PutU16(30, m.dbc)),
                     EncPointers(m.np, m.blocks),
                     EncBlocks(m.blocks)>>)
       ELSE CatAll(<<ctm, hdr,
                     Frag(m.len - LegacyCTMHeaderLength - MessageHeaderSize, EmptyF)>>)

EncMsgs(ms) == CatAll([i \in 1..Len(ms) |-> EncMsg(ms[i])])

\* an LDM record of the source: the size word, the bytes of body the source holds,
\* what they decompress to (the messages ms, cut after cut bytes when cut >= 0) and
\* how the decompressed stream ends.  msgs is a ghost.
Rec(size, ms, cut, term) ==
    [size |-> size,
     avail |-> IF size = MinInt32 THEN 0 ELSE IF size < 0 THEN -size ELSE size,
     inner |-> IF cut >= 0 THEN Truncate(EncMsgs(ms), cut) ELSE EncMsgs(ms),
     term |-> term,
     msgs |-> ms]


\* an LDM record whose size word promises size bytes of body while the source
\* ends after avail of them, the avail bytes being a complete compressed stream
RecEndingEarly(size, avail, ms) == [Rec(size, ms, -1, "eof") EXCEPT !.avail = avail]


(***************************************************************************)
(* Bounds and the input families.                                          *)
(***************************************************************************)
MaxRecords == 3
MaxHeaderRecords == 2
MaxChunks == 2

Proc == 0..MaxChunks
Workers == 1..MaxChunks

BVol == Block(NameVOL, 0, 0, <<>>)
BElv == Block(NameELV, 0, 0, <<>>)
BRef == Block(NameREF, 2, 8, <<0, 100>>)
BVel == Block(NameVEL, 1, 16, <<1, 44>>)
BFoo == Block(NameFOO, 0, 0, <<>>)
BLowerVol == Block(NameLowerVol, 0, 0, <<>>)
\* a moment of 8192 one-byte gates: 8192 * 8 does not fit 16 bits
BWide == Block(NameREF, 8192, 8, <<>>)

\* Message 2 of builds 19, 18, 20 and 17; M2icd fills a 2432-byte record
M2a == Msg2(1900, 1, DefaultMetadataRecordLength + Message2Size - Message2SkipAssumed)
M2b == Msg2(1800, 2, DefaultMetadataRecordLength + Message2Size - Message2SkipAssumed)
M2c == Msg2(2000, 3, DefaultMetadataRecordLength + Message2Size - Message2SkipAssumed)
M2low == Msg2(1700, 4, DefaultMetadataRecordLength + Message2Size - Message2SkipAssumed)
M2icd == Msg2(1900, 5, DefaultMetadataRecordLength)

\* radials, written with np data block pointers
RadA(np) == Msg31(1, 1, np, 2, <<BVol, BRef>>)
RadB(np) == Msg31(2, 2, np, 1, <<BElv>>)
RadC(np) == Msg31(1, 3, np, 1, <<BVel>>)
RadFoo == Msg31(1, 4, 10, 2, <<BVol, BFoo>>)
RadShortCount == Msg31(2, 5, 10, 3, <<BVol, BRef>>)
RadLowerVol == Msg31(2, 6, 10, 1, <<BLowerVol>>)
RadWide == Msg31(1, 7, 10, 1, <<BWide>>)

\* offsets inside a message at which a source may end
CutInCTM == LegacyCTMHeaderLength - 7
CutInHeader == LegacyCTMHeaderLength + 7
BodyStart == LegacyCTMHeaderLength + MessageHeaderSize
CutsOfM2 == {BodyStart + 30, BodyStart + Message2Size + 100}
CutsOfRadA ==
    {BodyStart + 10,
     BodyStart + Message31HeaderSize + 8,
     BodyStart + Message31HeaderSize + 40 + DataBlockSize + 10,
     BodyStart + Message31HeaderSize + 40 + DataBlockSize + VolumeDataSize + DataBlockSize + 5,
     EncMsg(RadA(10)).len - 1}

WholeRecords ==
    { Rec(120, <<M2a>>, -1, "eof"),
      Rec(-130, <<M2b>>, -1, "eof"),
      Rec(125, <<M2c>>, -1, "eof"),
      Rec(110, <<M2low>>, -1, "eof"),
      Rec(140, <<M2a, M2b>>, -1, "eof"),
      Rec(145, <<M2a, M2low>>, -1, "eof"),
      Rec(150, <<M2icd, MsgOther(15)>>, -1, "eof"),
      Rec(-160, <<MsgOther(15), M2a>>, -1, "eof"),
      Rec(200, <<RadA(10), RadB(10)>>, -1, "eof"),
      Rec(-210, <<RadA(9), RadC(9)>>, -1, "eof"),
      Rec(215, <<MsgOther(3), RadB(10)>>, -1, "eof"),
      Rec(220, <<M2a, RadA(10)>>, -1, "eof"),
      Rec(-225, <<RadC(10), RadA(10)>>, -1, "eof"),
      Rec(230, <<RadFoo>>, -1, "eof"),
      Rec(-235, <<RadLowerVol, RadB(10)>>, -1, "eof"),
      Rec(-260, <<RadWide>>, -1, "eof"),
      Rec(240, <<RadShortCount>>, -1, "eof"),
      Rec(90, <<>>, -1, "eof"),
      RecEndingEarly(250, 180, <<M2a>>),
      Rec(0, <<>>, -1, "eof"),
      Rec(MinInt32, <<>>, -1, "eof") }

CutRecords ==
    { Rec(100, <<M2a>>, c, "eof") : c \in CutsOfM2 }
    \cup { Rec(-105, <<RadA(10)>>, c, t) : c \in CutsOfRadA, t \in {"eof", "err"} }
    \cup { Rec(95, <<MsgOther(15)>>, c, "eof") : c \in {CutInCTM, CutInHeader, BodyStart + 50} }

FileRecords == WholeRecords \cup CutRecords

\* loadArchive2Realtime: the LDM records of the header chunk and of the data chunks
HeaderRecords ==
    { Rec(120, <<M2a>>, -1, "eof"),
      Rec(-130, <<M2b>>, -1, "eof"),
      Rec(215, <<MsgOther(3), RadB(10)>>, -1, "eof") }

ChunkRecords ==
    { Rec(200, <<RadA(10), RadB(10)>>, -1, "eof"),
      Rec(-205, <<RadC(10), RadA(10)>>, -1, "eof"),
      Rec(125, <<M2c>>, -1, "eof"),
      Rec(-105, <<RadC(10), RadFoo>>, -1, "eof") }

\* the lengths a source may have when the volume header is read
HeaderLengths == {0, 10, VolumeHeaderSize}

NoRec == Rec(0, <<>>, -1, "eof")


(***************************************************************************)
(* DataMoment.ScaledData.  A float32 is held as the exact ratio num/den in *)
(* lowest terms with den > 0.  The samples, offsets and scales used here   *)
(* are values float32 holds exactly; a quotient is kept exact, where the   *)
(* code rounds it to the nearest float32.                                  *)
(***************************************************************************)
MomentDataBelowThreshold == 999
MomentDataFolded == 998

RECURSIVE GCD(_, _)
GCD(a, b) == IF b = 0 THEN a ELSE GCD(b, a % b)

\* the float32 num/den
Ratio(num, den) ==
    LET n == IF den < 0 THEN -num ELSE num
        d == IF den < 0 THEN -den ELSE den
        g == GCD(IF n < 0 THEN -n ELSE n, d)
    IN [num |-> n \div g, den |-> d \div g]

\* float32(n)
Float32(n) == [num |-> n, den |-> 1]

FloatSub(x, y) == Ratio(x.num * y.den - y.num * x.den, x.den * y.den)

FloatDiv(x, y) == Ratio(x.num * y.den, x.den * y.num)

scaleUintNoOffset(n, offset, scale) ==
    LET val == Float32(n)
    IN IF scale.num = 0 THEN val ELSE FloatDiv(val, scale)

scaleUint(n, offset, scale) ==
    LET val == Float32(n)
    IN IF scale.num = 0 THEN val ELSE FloatDiv(FloatSub(val, offset), scale)

ScaledData(d) ==
    [idx \in 1..Len(d.Data) |->
        LET val == d.Data[idx]
        IN IF val = 0 THEN Float32(MomentDataBelowThreshold)
           ELSE IF val = 1 THEN Float32(MomentDataFolded)
           ELSE scaleUint(val, d.GenericDataMoment.Offset, d.GenericDataMoment.Scale)]

\* the moments ScaledData is called on: Data holds gates * word size / 8 bytes
MaxSamples == 4
SampleBytes == {0, 1, 2, 100}
Offsets == {Float32(0), Float32(2), Float32(66), Ratio(-65, 2)}
Scales == {Float32(0), Float32(2), Float32(3), Ratio(1, 2)}
WordSizes == {8, 16}

DataOfLength(n) == [1..n -> SampleBytes]

\* the DataMoment of word size ws that holds the bytes data
DataMomentOf(data, ws, off, sc) ==
    [GenericDataMoment |-> [NumberDataMomentGates |-> (8 * Len(data)) \div ws,
                            DataWordSize |-> ws, Scale |-> sc, Offset |-> off],
     Data |-> data]

\* the DataMoment{} no call is made on
ZeroDataMoment ==
    [GenericDataMoment |-> [NumberDataMomentGates |-> 0, DataWordSize |-> 0,
                            Scale |-> Float32(0), Offset |-> Float32(0)],
     Data |-> <<>>]


(***************************************************************************)
(* State.  Process 0 runs NewArchive2; processes 1..MaxChunks are the      *)
(* goroutines of loadArchive2Realtime.                                     *)
(***************************************************************************)
VARIABLES
    inputs,    \* "file": NewArchive2 on a file; "chunks": loadArchive2Realtime
    pc,        \* where each process is
    cur,       \* the LDM record each process's LoadLDMRecord is reading
    ipos,      \* the cursor of each process in the decompressed stream
    loaded,    \* LoadLDMRecord's loadedRecord (a pointer) of each process
    lerr,      \* the error LoadLDMRecord returned to each process
    ar2,       \* the Archive2
    offset,    \* NewArchive2's offset
    opos,      \* the cursor of NewArchive2's reader
    ended,     \* NewArchive2's reader has no more bytes
    nrec,      \* LDM records NewArchive2's reader has handed out
    mtx,       \* the holder of loadArchive2Realtime's mtx, 0 when free
    ret,       \* "running", "ok" (a volume, nil error), "err" (nil volume), "panic",
               \* "fatal" (the runtime's "concurrent map writes")
    m2seen,    \* ghost: the Message 2 values decoded, in order
    lastMsg,   \* ghost: the last pass of a message loop
    moment,    \* the DataMoment ScaledData is called on
    scaledData, \* what ScaledData returned (a pointer: nil before the call)
    local      \* AddFromLDMRecord's position in its range loop and the slice it
               \* read, for each process that calls it without a lock

vars == <<inputs, pc, cur, ipos, loaded, lerr, ar2, offset, opos, ended, nrec, mtx,
          ret, m2seen, lastMsg, moment, scaledData, local>>

NewVolume ==
    [VolumeHeader |-> 0, LDMOffsets |-> <<>>, LDMRecords |-> <<>>,
     ElevationScans |-> EmptyF, metadataStatusMessage |-> NilPtr]

InitCommon ==
    /\ pc = [p \in Proc |-> IF p = 0 THEN "hdr" ELSE "idle"]
    /\ cur = [p \in Proc |-> NoRec]
    /\ ipos = [p \in Proc |-> 0]
    /\ loaded = [p \in Proc |-> NilPtr]
    /\ lerr = [p \in Proc |-> "nil"]
    /\ ar2 = NewVolume
    /\ offset = 0
    /\ opos = 0
    /\ ended = FALSE
    /\ nrec = 0
    /\ mtx = 0
    /\ ret = "running"
    /\ m2seen = <<>>
    /\ lastMsg = [NoMessage EXCEPT !.type = -2]
    /\ local = [p \in Proc |-> [i |-> 0, old |-> <<>>]]

\* no moment is being scaled
NoScaling == moment = ZeroDataMoment /\ scaledData = NilPtr

Init == inputs = "file" /\ InitCommon /\ NoScaling

\* the records process p's reader may hold next
Records(p) ==
    IF inputs = "file" THEN FileRecords
    ELSE IF p = 0 THEN HeaderRecords ELSE ChunkRecords

IsEOFNever(err) == FALSE

\* if err == io.EOF { break }
IsEOF(err) == err = "EOF"

NextOffsetNoSizeWord(off, lr) == off + lr.Size

\* offset += int(ldm.Size) + 4
NextOffset(off, lr) == off + lr.Size + SizeWordLength

\* NewArchive2, lines 137-152: the volume header is read, its error dropped
ReadVolumeHeader ==
    /\ UNCHANGED <<moment, scaledData, local>>
    /\ ret = "running"
    /\ pc[0] = "hdr"
    /\ \E hlen \in HeaderLengths :
          /\ ar2' = [ar2 EXCEPT !.VolumeHeader = IF hlen >= VolumeHeaderSize THEN 1 ELSE 0]
          /\ opos' = hlen
          /\ ended' = (hlen < VolumeHeaderSize)
    /\ offset' = FirstOffset
    /\ pc' = [pc EXCEPT ![0] = "call"]
    /\ UNCHANGED <<inputs, cur, ipos, loaded, lerr, nrec, mtx, ret, m2seen, lastMsg>>

\* LoadLDMRecord, lines 41-61, when the reader has no byte left: io.EOF
LoadSizeEOF(p) ==
    /\ UNCHANGED <<moment, scaledData, local>>
    /\ ret = "running"
    /\ pc[p] = "call"
    /\ pc' = [pc EXCEPT ![p] = "ret"]
    /\ loaded' = [loaded EXCEPT ![p] = NilPtr]
    /\ lerr' = [lerr EXCEPT ![p] = "EOF"]
    /\ IF p = 0 THEN ended' = TRUE ELSE UNCHANGED ended
    /\ UNCHANGED <<inputs, cur, ipos, ar2, offset, opos, nrec, mtx, ret, m2seen, lastMsg>>

\* ... when the reader ends inside the size word: io.ErrUnexpectedEOF
LoadSizeShort(p) ==
    /\ UNCHANGED <<moment, scaledData, local>>
    /\ ret = "running"
    /\ pc[p] = "call"
    /\ p = 0 => ~ended
    /\ pc' = [pc EXCEPT ![p] = "ret"]
    /\ loaded' = [loaded EXCEPT ![p] = NilPtr]
    /\ lerr' = [lerr EXCEPT ![p] = "ErrUnexpectedEOF"]
    /\ IF p = 0 THEN ended' = TRUE /\ opos' = opos + 2 ELSE UNCHANGED <<ended, opos>>
    /\ UNCHANGED <<inputs, cur, ipos, ar2, offset, nrec, mtx, ret, m2seen, lastMsg>>

\* ... when the reader holds a record: the size word is read and negated, the
\* decompressor and the loadedRecord are set up
LoadSize(p) ==
    /\ UNCHANGED <<moment, scaledData, local>>
    /\ ret = "running"
    /\ pc[p] = "call"
    /\ p = 0 => (~ended /\ nrec < (IF inputs = "file" THEN MaxRecords ELSE MaxHeaderRecords))
    /\ \E rec \in Records(p) :
          /\ cur' = [cur EXCEPT ![p] = rec]
          /\ loaded' = [loaded EXCEPT ![p] = <<NewLoadedRecord(NegateSize(rec.size))>>]
    /\ ipos' = [ipos EXCEPT ![p] = 0]
    /\ lerr' = [lerr EXCEPT ![p] = "nil"]
    /\ pc' = [pc EXCEPT ![p] = "msgs"]
    /\ IF p = 0 THEN nrec' = nrec + 1 /\ opos' = opos + SizeWordLength
       ELSE UNCHANGED <<nrec, opos>>
    /\ UNCHANGED <<inputs, ar2, offset, ended, mtx, ret, m2seen, lastMsg>>

VolumeAfterLoadMsgInline(a, lr) ==
    IF lr.M2 # NilPtr THEN [a EXCEPT !.metadataStatusMessage = lr.M2] ELSE a

\* LoadLDMRecord assigns to its local loadedRecord only (lines 61, 92, 101); the
\* receiver ar2 is read (line 96) and never written
VolumeAfterLoadMsg(a, lr) == a

\* LoadLDMRecord, lines 64-123: one pass of the message loop
LoadMsg(p) ==
    /\ UNCHANGED <<moment, scaledData, local>>
    /\ ret = "running"
    /\ pc[p] = "msgs"
    /\ LET lr == loaded[p][1]
           res == LoadMessage(BodyReader(cur[p], lr.Size), ipos[p], lr,
                              ar2.metadataStatusMessage)
       IN /\ lastMsg' = res.msg
          /\ m2seen' = IF res.msg.type = 2 THEN Append(m2seen, res.lr.M2[1]) ELSE m2seen
          /\ loaded' = [loaded EXCEPT ![p] = <<res.lr>>]
          /\ ipos' = [ipos EXCEPT ![p] = res.pos]
          /\ ret' = IF res.next = "panic" THEN "panic" ELSE ret
          /\ pc' = IF res.next = "return" THEN [pc EXCEPT ![p] = "ret"] ELSE pc
          /\ lerr' = IF res.next = "return" THEN [lerr EXCEPT ![p] = res.err] ELSE lerr
          /\ IF p = 0 /\ res.next = "return" /\ res.err = "nil"
             THEN /\ opos' = opos + BodyConsumed(cur[p], lr.Size)
                  /\ ended' = (cur[p].avail < lr.Size)
             ELSE UNCHANGED <<opos, ended>>
          /\ ar2' = VolumeAfterLoadMsg(ar2, res.lr)
    /\ UNCHANGED <<inputs, cur, offset, nrec, mtx>>

\* NewArchive2, lines 156-168: what the loop does with LoadLDMRecord's result
AfterLoad ==
    /\ UNCHANGED <<moment, scaledData, local>>
    /\ ret = "running"
    /\ pc[0] = "ret"
    /\ IF IsEOF(lerr[0])
       THEN /\ ret' = "ok"
            /\ pc' = [pc EXCEPT ![0] = "done"]
            /\ UNCHANGED <<ar2, offset>>
       ELSE IF lerr[0] # "nil"
       THEN /\ ret' = "err"
            /\ pc' = [pc EXCEPT ![0] = "done"]
            /\ UNCHANGED <<ar2, offset>>
       ELSE LET lr == loaded[0][1]
            IN /\ ar2' = AddFromLDMRecord(
                            [ar2 EXCEPT !.LDMOffsets = Append(@, offset),
                                        !.LDMRecords = Append(@, lr)], lr)
               /\ offset' = NextOffset(offset, lr)
               /\ pc' = [pc EXCEPT ![0] = "call"]
               /\ UNCHANGED ret
    /\ UNCHANGED <<inputs, cur, ipos, loaded, lerr, opos, ended, nrec, mtx, m2seen, lastMsg>>

Next ==
    \/ ReadVolumeHeader
    \/ LoadSizeEOF(0)
    \/ LoadSizeShort(0)
    \/ LoadSize(0)
    \/ LoadMsg(0)
    \/ AfterLoad

Spec == Init /\ [][Next]_vars


(***************************************************************************)
(* loadArchive2Realtime: after NewArchive2 on the header chunk, one        *)
(* goroutine per data chunk.                                               *)
(***************************************************************************)
InitRT == inputs = "chunks" /\ InitCommon /\ NoScaling

\* lines 510-520: NewArchive2 returned a volume; a goroutine starts per chunk
Spawn ==
    /\ UNCHANGED <<moment, scaledData, local>>
    /\ ret = "ok"
    /\ pc[0] = "done"
    /\ inputs \in {"chunks", "direct"}
    /\ \E n \in 0..MaxChunks :
          pc' = [p \in Proc |-> IF p = 0 THEN "wait" ELSE IF p <= n THEN "fetch" ELSE "idle"]
    /\ ret' = "running"
    /\ UNCHANGED <<inputs, cur, ipos, loaded, lerr, ar2, offset, opos, ended, nrec, mtx,
                   m2seen, lastMsg>>

\* lines 523-529: GetObject; on an error the goroutine returns
Fetch(c) ==
    /\ UNCHANGED <<moment, scaledData, local>>
    /\ ret = "running"
    /\ pc[c] = "fetch"
    /\ \E ok \in BOOLEAN : pc' = [pc EXCEPT ![c] = IF ok THEN "call" ELSE "done"]
    /\ UNCHANGED <<inputs, cur, ipos, loaded, lerr, ar2, offset, opos, ended, nrec, mtx,
                   ret, m2seen, lastMsg>>

LoadFailedAtSizeWord(err) == err \in {"EOF", "ErrUnexpectedEOF"}

\* if err != nil { return }
LoadFailed(err) == err # "nil"

\* lines 531-536: on a load error the goroutine returns, else it takes mtx
Lock(c) ==
    /\ UNCHANGED <<moment, scaledData, local>>
    /\ ret = "running"
    /\ pc[c] = "ret"
    /\ IF LoadFailed(lerr[c])
       THEN pc' = [pc EXCEPT ![c] = "done"] /\ UNCHANGED mtx
       ELSE mtx = 0 /\ mtx' = c /\ pc' = [pc EXCEPT ![c] = "add"]
    /\ UNCHANGED <<inputs, cur, ipos, loaded, lerr, ar2, offset, opos, ended, nrec,
                   ret, m2seen, lastMsg>>

\* line 537
Add(c) ==
    /\ UNCHANGED <<moment, scaledData, local>>
    /\ ret = "running"
    /\ pc[c] = "add"
    /\ ar2' = AddFromLDMRecord(ar2, loaded[c][1])
    /\ pc' = [pc EXCEPT ![c] = "unlock"]
    /\ UNCHANGED <<inputs, cur, ipos, loaded, lerr, offset, opos, ended, nrec, mtx,
                   ret, m2seen, lastMsg>>

\* line 538
Unlock(c) ==
    /\ UNCHANGED <<moment, scaledData, local>>
    /\ ret = "running"
    /\ pc[c] = "unlock"
    /\ mtx' = 0
    /\ pc' = [pc EXCEPT ![c] = "done"]
    /\ UNCHANGED <<inputs, cur, ipos, loaded, lerr, ar2, offset, opos, ended, nrec,
                   ret, m2seen, lastMsg>>

\* lines 541-543: wg.Wait() and the return of the volume
Return ==
    /\ UNCHANGED <<moment, scaledData, local>>
    /\ ret = "running"
    /\ pc[0] = "wait"
    /\ \A c \in Workers : pc[c] \in {"idle", "done"}
    /\ ret' = "ok"
    /\ pc' = [pc EXCEPT ![0] = "returned"]
    /\ UNCHANGED <<inputs, cur, ipos, loaded, lerr, ar2, offset, opos, ended, nrec, mtx,
                   m2seen, lastMsg>>

NextRT ==
    \/ Next
    \/ Spawn
    \/ Return
    \/ \E c \in Workers :
          \/ Fetch(c)
          \/ LoadSizeEOF(c)
          \/ LoadSizeShort(c)
          \/ LoadSize(c)
          \/ LoadMsg(c)
          \/ Lock(c)
          \/ Add(c)
          \/ Unlock(c)

SpecRT == InitRT /\ [][NextRT]_vars


(***************************************************************************)
(* Goroutines that call ar2.AddFromLDMRecord with no lock of their own, as *)
(* a caller does that takes the method to be safe for concurrent use.  The *)
(* method takes no lock, so its reads and writes of the volume are steps   *)
(* of their own.                                                           *)
(***************************************************************************)
InitDirect == inputs = "direct" /\ InitCommon /\ NoScaling

\* the goroutine has its record (or returns on a load error) and calls the method
CallAdd(c) ==
    /\ ret = "running"
    /\ inputs = "direct"
    /\ pc[c] = "ret"
    /\ pc' = [pc EXCEPT ![c] = IF LoadFailed(lerr[c]) THEN "done" ELSE "test"]
    /\ local' = [local EXCEPT ![c] = [i |-> 1, old |-> <<>>]]
    /\ UNCHANGED <<inputs, cur, ipos, loaded, lerr, ar2, offset, opos, ended, nrec, mtx,
                   ret, m2seen, lastMsg, moment, scaledData>>

\* if loadedRecord.M2 != nil && ar2.metadataStatusMessage == nil
TestStatus(c) ==
    /\ ret = "running"
    /\ pc[c] = "test"
    /\ pc' = [pc EXCEPT ![c] = IF loaded[c][1].M2 # NilPtr /\ ar2.metadataStatusMessage = NilPtr
                                THEN "set" ELSE "range"]
    /\ UNCHANGED <<inputs, cur, ipos, loaded, lerr, ar2, offset, opos, ended, nrec, mtx,
                   ret, m2seen, lastMsg, moment, scaledData, local>>

\* ar2.metadataStatusMessage = loadedRecord.M2
SetStatus(c) ==
    /\ ret = "running"
    /\ pc[c] = "set"
    /\ ar2' = [ar2 EXCEPT !.metadataStatusMessage = loaded[c][1].M2]
    /\ pc' = [pc EXCEPT ![c] = "range"]
    /\ UNCHANGED <<inputs, cur, ipos, loaded, lerr, offset, opos, ended, nrec, mtx,
                   ret, m2seen, lastMsg, moment, scaledData, local>>

\* the range loop: the next radial, and the read of ar2.ElevationScans[k]
RangeLoad(c) ==
    /\ ret = "running"
    /\ pc[c] = "range"
    /\ IF local[c].i > Len(loaded[c][1].M31s)
       THEN pc' = [pc EXCEPT ![c] = "done"] /\ UNCHANGED local
       ELSE LET k == ScanKey(loaded[c][1].M31s[local[c].i])
            IN /\ local' = [local EXCEPT ![c].old = IF k \in DOMAIN ar2.ElevationScans
                                                     THEN ar2.ElevationScans[k] ELSE <<>>]
               /\ pc' = [pc EXCEPT ![c] = "store"]
    /\ UNCHANGED <<inputs, cur, ipos, loaded, lerr, ar2, offset, opos, ended, nrec, mtx,
                   ret, m2seen, lastMsg, moment, scaledData>>

\* ar2.ElevationScans[k] = append(..., m31).  Two goroutines writing the map at
\* once is a data race: the write goes through, or the runtime stops the program
RangeStore(c) ==
    /\ ret = "running"
    /\ pc[c] = "store"
    /\ LET m == loaded[c][1].M31s[local[c].i]
           k == ScanKey(m)
       IN \/ /\ ar2' = [ar2 EXCEPT !.ElevationScans =
                                       (k :> Append(local[c].old, m)) @@ ar2.ElevationScans]
             /\ local' = [local EXCEPT ![c].i = @ + 1]
             /\ pc' = [pc EXCEPT ![c] = "range"]
             /\ UNCHANGED ret
          \/ /\ \E d \in Workers \ {c} : pc[d] = "store"
             /\ ret' = "fatal"
             /\ UNCHANGED <<ar2, local, pc>>
    /\ UNCHANGED <<inputs, cur, ipos, loaded, lerr, offset, opos, ended, nrec, mtx,
                   m2seen, lastMsg, moment, scaledData>>

NextDirect ==
    \/ Next
    \/ Spawn
    \/ Return
    \/ \E c \in Workers :
          \/ Fetch(c)
          \/ LoadSizeEOF(c)
          \/ LoadSizeShort(c)
          \/ LoadSize(c)
          \/ LoadMsg(c)
          \/ CallAdd(c)
          \/ TestStatus(c)
          \/ SetStatus(c)
          \/ RangeLoad(c)
          \/ RangeStore(c)

SpecDirect == InitDirect /\ [][NextDirect]_vars


(***************************************************************************)
(* A caller scales a moment: ScaledData is called on a DataMoment.         *)
(***************************************************************************)
InitScaled ==
    /\ inputs = "moment"
    /\ InitCommon
    /\ \E n \in 0..MaxSamples, ws \in WordSizes :
          /\ (8 * n) % ws = 0
          /\ \E data \in DataOfLength(n), off \in Offsets, sc \in Scales :
                moment = DataMomentOf(data, ws, off, sc)
    /\ scaledData = NilPtr

CallScaledData ==
    /\ inputs = "moment"
    /\ scaledData = NilPtr
    /\ scaledData' = <<ScaledData(moment)>>
    /\ UNCHANGED <<inputs, pc, cur, ipos, loaded, lerr, ar2, offset, opos, ended, nrec,
                   mtx, ret, m2seen, lastMsg, moment, local>>

NextScaled == CallScaledData

SpecScaled == InitScaled /\ [][NextScaled]_vars


(***************************************************************************)
(* Properties.                                                             *)
(***************************************************************************)
Abs(x) == IF x < 0 THEN -x ELSE x

Slot == ar2.metadataStatusMessage

Radials == UNION { { ar2.ElevationScans[k][i] : i \in 1..Len(ar2.ElevationScans[k]) } :
                   k \in DOMAIN ar2.ElevationScans }

\* C1: in NewArchive2, LDMOffsets and LDMRecords have the same length, the first
\* offset is 24, consecutive offsets differ by the record's Size + 4, and Size is
\* the absolute value of the record's size word.
C1_OffsetsAligned ==
    LET n == Len(ar2.LDMOffsets)
    IN /\ n = Len(ar2.LDMRecords)
       /\ n > 0 => ar2.LDMOffsets[1] = 24
       /\ \A i \in 1..(n - 1) :
             ar2.LDMOffsets[i + 1] - ar2.LDMOffsets[i] = ar2.LDMRecords[i].Size + 4
       /\ (n > 0 /\ pc[0] = "call") =>
             /\ ar2.LDMRecords[n].Size = Abs(cur[0].size)
             /\ offset = ar2.LDMOffsets[n] + Abs(cur[0].size) + 4

C1_Witness ==
    /\ pc[0] = "call"
    /\ Len(ar2.LDMOffsets) = 2
    /\ ar2.LDMOffsets[2] = 24 + 130 + 4
    /\ cur[0].size < 0

\* C2: every radial stored in ElevationScans[k] has ElevationNumber k, in
\* sequential and in chunk mode.
C2_ScansKeyedByElevation ==
    \A k \in DOMAIN ar2.ElevationScans :
       \A i \in 1..Len(ar2.ElevationScans[k]) :
          ar2.ElevationScans[k][i].Header.ElevationNumber = k

C2_Witness ==
    /\ pc[0] = "returned"
    /\ {1, 2} \subseteq DOMAIN ar2.ElevationScans
    /\ Len(ar2.ElevationScans[2]) >= 2
    /\ Len(ar2.LDMRecords) >= 2

\* C3: when NewArchive2 returns a volume for a stream with at least one
\* Message 2, the retained status is the first Message 2 of the stream.
C3_FirstMessage2Retained ==
    (pc[0] = "done" /\ ret = "ok" /\ m2seen # <<>>) => Slot = <<m2seen[1]>>

\* C4: once the status slot is set, no step replaces it.
C4_SlotSetOnce ==
    [][Slot # NilPtr => ar2'.metadataStatusMessage = Slot]_vars

C4_Witness ==
    \E c \in Workers :
       /\ pc[c] = "unlock"
       /\ loaded[c][1].M2 # NilPtr
       /\ Slot # NilPtr
       /\ Slot # loaded[c][1].M2

\* C5: a Message 31 that follows a Message 2 in the stream is decoded with the
\* status slot set and with the build of the first Message 2 seen so far.
C5_BuildOfPrecedingMessage2 ==
    (lastMsg.type = 31 /\ m2seen # <<>>) =>
       (ret # "panic" /\ Slot # NilPtr /\ lastMsg.build = GetBuildNumber(m2seen[1]))

\* C6: NewMessage31 discards 36 bytes of pointers for build 18 and 40 bytes for
\* build 19 and every higher build.
C6_PointerTableLength ==
    (/\ lastMsg.type = 31
     /\ ret # "panic"
     /\ lastMsg.avail >= BodyStart + Message31HeaderSize + 40
     /\ lastMsg.build \in ({1800} \cup 1900..2500)) =>
       lastMsg.ptr = IF lastMsg.build = 1800 THEN 36 ELSE 40

\* C7: if the first Message 2 reports a build below 18 it is never retained,
\* LoadLDMRecord returns an error and NewArchive2 returns the error and no volume.
C7_BuildGate ==
    (m2seen # <<>> /\ GetBuildNumber(m2seen[1]) < 1800) =>
       /\ Slot = NilPtr
       /\ pc[0] \in {"ret", "done"}
       /\ lerr[0] \notin {"nil", "EOF"}
       /\ pc[0] = "done" => ret = "err"

C7_Witness ==
    /\ pc[0] = "done"
    /\ ret = "err"
    /\ Len(ar2.LDMRecords) = 1
    /\ m2seen # <<>>
    /\ GetBuildNumber(m2seen[1]) = 1700

\* C8: a Message 2 that comes after the first one changes neither the volume
\* nor whether the decode succeeds: its pass is not what fails the load, and the
\* record keeps the Message 2 it had.
C8_LaterMessage2Discarded ==
    (lastMsg.type = 2 /\ Len(m2seen) >= 2 /\ GetBuildNumber(m2seen[1]) >= 1800) =>
       /\ lastMsg.err = "nil"
       /\ \A p \in Proc : (pc[p] = "msgs" /\ lastMsg.start > 0) =>
             loaded[p][1].M2 = <<m2seen[Len(m2seen) - 1]>>

\* C9: a message whose type is not 31 takes exactly 2432 bytes of the
\* decompressed stream.
C9_FixedRecordLength ==
    (lastMsg.type \notin {-2, -1, 31} /\ lastMsg.err = "nil" /\ ~lastMsg.short) =>
       lastMsg.end - lastMsg.start = 2432

\* C10: when the stream ends inside a message body, LoadLDMRecord returns an
\* error and no radial built from missing bytes is added to the volume.
C10_TruncationIsAnError ==
    /\ \A m \in Radials : ~m.short
    /\ \A p \in Proc :
          (pc[p] = "ret" /\ loaded[p] # NilPtr /\ loaded[p][1].short) => lerr[p] # "nil"

\* C11: when a pass of a message loop ended in an error, NewArchive2 returns the
\* error and no volume; when NewArchive2 returns a volume, every LDM record its
\* reader handed out was appended to LDMRecords.
C11_ErrorsAbortWholeVolume ==
    /\ (pc[0] = "done" /\ lastMsg.err # "nil") => ret = "err"
    /\ (pc[0] = "done" /\ ret = "ok") => Len(ar2.LDMRecords) = nrec

\* C12: a source that ends inside the volume header (the header was not decoded)
\* makes NewArchive2 return an error, never a volume.
C12_ShortVolumeHeaderFails ==
    (pc[0] = "done" /\ ar2.VolumeHeader = 0 /\ opos < VolumeHeaderSize) => ret = "err"

\* C13: when the source ends exactly where a size word would start, NewArchive2
\* returns a volume (nil error) that holds every record read before; with no
\* record the volume has no elevation scans and no retained status.
C13_CleanEOFTerminates ==
    (pc[0] = "done" /\ lerr[0] = "EOF" /\ loaded[0] = NilPtr) =>
       /\ ret = "ok"
       /\ Len(ar2.LDMRecords) = nrec
       /\ Len(ar2.LDMOffsets) = nrec
       /\ nrec = 0 => (ar2.ElevationScans = EmptyF /\ Slot = NilPtr)

C13_Witness ==
    /\ pc[0] = "done"
    /\ lerr[0] = "EOF"
    /\ loaded[0] = NilPtr
    /\ ret = "ok"
    /\ ar2.VolumeHeader = 1
    /\ Len(ar2.LDMRecords) = 2
    /\ Radials # {}

\* C14: when the last size word NewArchive2 read is 0, NewArchive2 returns a
\* volume (nil error) holding the records read before it.
C14_ZeroSizeTerminates ==
    (pc[0] = "done" /\ nrec > 0 /\ cur[0].size = 0) =>
       (ret = "ok" /\ Len(ar2.LDMRecords) = nrec - 1)

\* C15: for a negative size word s, the record LoadLDMRecord sets up has
\* Size = -s, which is not negative.
C15_NegativeSizeIsMagnitude ==
    \A p \in Proc :
       (pc[p] = "msgs" /\ cur[p].size < 0) =>
          (loaded[p][1].Size >= 0 /\ loaded[p][1].Size + cur[p].size = 0)

\* C16: when LoadLDMRecord returns a record to NewArchive2 without error, the
\* reader's cursor is 4 + Size bytes past the offset at which the record began.
C16_CursorAfterBody ==
    (pc[0] = "ret" /\ lerr[0] = "nil") => opos = offset + 4 + loaded[0][1].Size

\* C17: when a message loop stands at the clean end of its decompressed stream,
\* its next pass returns the record as it is, without an error.
C17_EndOfRecordAtMessageStart ==
    [][\A p \in Proc :
          (/\ pc[p] = "msgs"
           /\ BodyReader(cur[p], loaded[p][1].Size).term = "eof"
           /\ ipos[p] = BodyReader(cur[p], loaded[p][1].Size).len
           /\ pc'[p] # pc[p]) =>
             (pc'[p] = "ret" /\ lerr'[p] = "nil" /\ loaded'[p] = loaded[p])]_vars

C17_Witness ==
    /\ pc[0] = "ret"
    /\ lerr[0] = "nil"
    /\ lastMsg.type = -1
    /\ lastMsg.avail = 0
    /\ lastMsg.start > 0
    /\ Len(loaded[0][1].M31s) = 2

\* a Message 31 of the source with a data block, among those its DataBlockCount
\* covers, whose name is none of the ten known names
HasUnknownBlock(m) ==
    /\ m.t = 31
    /\ \E i \in 1..Len(m.blocks) :
          /\ i <= m.dbc
          /\ m.blocks[i].name \notin {NameVOL, NameELV, NameRAD, NameREF, NameVEL,
                                      NameSW, NameZDR, NamePHI, NameRHO, NameCFP}

\* C18: when a record's first message is a complete Message 31 with a data
\* block of an unknown name, read with the pointer count it was written with,
\* LoadLDMRecord returns an error and a record without radials, and NewArchive2
\* returns the error and no volume.
C18_UnknownBlockFails ==
    \A p \in Proc :
       (/\ pc[p] \in {"ret", "done"}
        /\ loaded[p] # NilPtr
        /\ cur[p].msgs # <<>>
        /\ HasUnknownBlock(cur[p].msgs[1])
        /\ cur[p].inner.len = EncMsgs(cur[p].msgs).len
        /\ Slot # NilPtr
        /\ pointersPerBuild(GetBuildNumber(Slot[1])) = cur[p].msgs[1].np) =>
          /\ lerr[p] \notin {"nil", "EOF"}
          /\ loaded[p][1].M31s = <<>>
          /\ (p = 0 /\ pc[p] = "done") => ret = "err"

C18_Witness ==
    /\ pc[0] = "done"
    /\ ret = "err"
    /\ cur[0].msgs = <<RadLowerVol, RadB(10)>>
    /\ lastMsg.type = 31
    /\ lastMsg.ptr = 40
    /\ lerr[0] = "unknown data block"

\* C19: every moment of a decoded radial whose word size is a multiple of 8
\* holds NumberDataMomentGates * DataWordSize / 8 sample bytes.
C19_MomentDataLength ==
    \A p \in Proc :
       loaded[p] # NilPtr =>
          \A i \in 1..Len(loaded[p][1].M31s) :
             LET ms == loaded[p][1].M31s[i].Moments
             IN \A n \in DOMAIN ms :
                   ms[n].GenericDataMoment.DataWordSize % 8 = 0 =>
                      Len(ms[n].Data) =
                         (ms[n].GenericDataMoment.NumberDataMomentGates
                            * ms[n].GenericDataMoment.DataWordSize) \div 8

\* C20: ScaledData returns one value per raw sample n (a byte of Data): 999 for n = 0,
\* 998 for n = 1, n itself for n >= 2 when scale is 0, and otherwise the value
\* v with v * scale = n - offset; [0, 1, 2, 100] with offset 2 and scale 2 gives
\* [999, 998, 0, 49].
C20_ScaledDataMapping ==
    scaledData # NilPtr =>
       LET out == scaledData[1]
           off == moment.GenericDataMoment.Offset
           sc == moment.GenericDataMoment.Scale
       IN /\ Len(out) = Len(moment.Data)
          /\ \A i \in 1..Len(out) :
                LET n == moment.Data[i]
                    v == out[i]
                IN /\ v.den > 0
                   /\ n = 0 => v = [num |-> 999, den |-> 1]
                   /\ n = 1 => v = [num |-> 998, den |-> 1]
                   /\ (n >= 2 /\ sc.num = 0) => v = [num |-> n, den |-> 1]
                   /\ (n >= 2 /\ sc.num # 0) =>
                         v.num * sc.num * off.den = (n * off.den - off.num) * sc.den * v.den
          /\ (/\ moment.Data = <<0, 1, 2, 100>>
              /\ off = [num |-> 2, den |-> 1]
              /\ sc = [num |-> 2, den |-> 1]) =>
                out = <<[num |-> 999, den |-> 1], [num |-> 998, den |-> 1],
                        [num |-> 0, den |-> 1], [num |-> 49, den |-> 1]>>

C20_Witness ==
    /\ scaledData # NilPtr
    /\ moment.Data = <<0, 1, 2, 100>>
    /\ moment.GenericDataMoment.Offset = [num |-> 2, den |-> 1]
    /\ moment.GenericDataMoment.Scale = [num |-> 2, den |-> 1]
    /\ moment.GenericDataMoment.DataWordSize = 8
    /\ scaledData[1][4] = [num |-> 49, den |-> 1]

\* C21: ScaledData returns NumberDataMomentGates values, one per gate, also when
\* a gate is a 16-bit sample.
C21_OneValuePerGate ==
    scaledData # NilPtr =>
       Len(scaledData[1]) = moment.GenericDataMoment.NumberDataMomentGates

RECURSIVE SumOver(_, _)
SumOver(f, S) ==
    IF S = {} THEN 0
    ELSE LET x == CHOOSE y \in S : TRUE IN Len(f[x]) + SumOver(f, S \ {x})

\* the radials stored in the volume
TotalRadials == SumOver(ar2.ElevationScans, DOMAIN ar2.ElevationScans)

\* the radials of the records NewArchive2 appended (the header chunk's, in chunk mode)
RadialsOfRecords ==
    SumOver([i \in 1..Len(ar2.LDMRecords) |-> ar2.LDMRecords[i].M31s],
            1..Len(ar2.LDMRecords))

\* the goroutines whose record was loaded and whose AddFromLDMRecord call returned
Merged == {c \in Workers : pc[c] = "done" /\ lerr[c] = "nil" /\ loaded[c] # NilPtr}

RadialsOfMerged == SumOver([c \in Merged |-> loaded[c][1].M31s], Merged)

\* C22: when goroutines call AddFromLDMRecord with no lock of their own, the
\* program does not crash and after all calls returned the volume holds every
\* radial of every merged record.
C22_OwnMutexSerializesMerges ==
    /\ ret # "fatal"
    /\ pc[0] = "returned" => TotalRadials = RadialsOfRecords + RadialsOfMerged

\* how often the radial r occurs in the sequence s
Count(s, r) == Cardinality({i \in 1..Len(s) : s[i] = r})

\* the radials of the records NewArchive2 appended and of the merged chunks
SourceRadials ==
    UNION ({ {ar2.LDMRecords[i].M31s[j] : j \in 1..Len(ar2.LDMRecords[i].M31s)} :
             i \in 1..Len(ar2.LDMRecords) }
           \cup { {loaded[c][1].M31s[j] : j \in 1..Len(loaded[c][1].M31s)} : c \in Merged })

\* how often r occurs in them
SourceCount(r) ==
    SumOver([i \in 1..Len(ar2.LDMRecords) |->
                SelectSeq(ar2.LDMRecords[i].M31s, LAMBDA x : x = r)],
            1..Len(ar2.LDMRecords))
    + SumOver([c \in Merged |-> SelectSeq(loaded[c][1].M31s, LAMBDA x : x = r)], Merged)

\* how often r is stored under its elevation number
StoredCount(r) ==
    IF r.Header.ElevationNumber \in DOMAIN ar2.ElevationScans
    THEN Count(ar2.ElevationScans[r.Header.ElevationNumber], r) ELSE 0

\* C23: when loadArchive2Realtime returns, every radial of the header chunk and
\* of the chunks that loaded is stored under its elevation number as often as
\* the chunks hold it, and nothing else is stored.
C23_ChunkMergeIsMultisetUnion ==
    pc[0] = "returned" =>
       /\ C2_ScansKeyedByElevation
       /\ \A r \in Radials \cup SourceRadials : StoredCount(r) = SourceCount(r)

C23_Witness ==
    /\ pc[0] = "returned"
    /\ Merged = Workers
    /\ \A c \in Workers : loaded[c][1].M31s # <<>>
    /\ 2 \in DOMAIN ar2.ElevationScans
    /\ Len(ar2.ElevationScans[2]) = 3
    /\ TotalRadials = RadialsOfRecords + RadialsOfMerged

\* the radials of elevation k among m31s, in the order of m31s
ScansOf(m31s, k) == SelectSeq(m31s, LAMBDA m : m.Header.ElevationNumber = k)

\* the Message 31s of the records NewArchive2 appended, in stream order
RECURSIVE StreamRadials(_)
StreamRadials(n) ==
    IF n = 0 THEN <<>> ELSE StreamRadials(n - 1) \o ar2.LDMRecords[n].M31s

\* the orders in which the goroutines of S may have merged
MergeOrders(S) ==
    {f \in [1..Cardinality(S) -> S] : \A i, j \in 1..Cardinality(S) : f[i] = f[j] => i = j}

\* the radials of the chunks f[1..n], chunk after chunk
RECURSIVE ChunkRadials(_, _)
ChunkRadials(f, n) ==
    IF n = 0 THEN <<>> ELSE ChunkRadials(f, n - 1) \o loaded[f[n]][1].M31s

\* ElevationScans[k], empty for a key the map does not hold
ScansAt(k) == IF k \in DOMAIN ar2.ElevationScans THEN ar2.ElevationScans[k] ELSE <<>>

ElevationNumbers ==
    DOMAIN ar2.ElevationScans \cup {r.Header.ElevationNumber : r \in SourceRadials}

\* C24: when loadArchive2Realtime returns, the chunks were merged in some order
\* of the goroutines, and every ElevationScans[k] holds the header chunk's radials
\* of elevation k followed, chunk after chunk in that order, by each merged
\* chunk's radials of elevation k in the order of the chunk's stream.
C24_ChunkOrderPreserved ==
    pc[0] = "returned" =>
       \E f \in MergeOrders(Merged) :
          \A k \in ElevationNumbers :
             ScansAt(k) = ScansOf(StreamRadials(Len(ar2.LDMRecords)), k)
                             \o ScansOf(ChunkRadials(f, Cardinality(Merged)), k)

\* two goroutines merged, the second before the first, and one of the chunks
\* holds two radials of elevation 1 that are stored in the chunk's order
C24_Witness ==
    /\ pc[0] = "returned" /\ Merged = {1, 2}
    /\ Len(ScansOf(loaded[1][1].M31s, 1)) = 2
    /\ loaded[2][1].M31s # <<>> /\ loaded[2][1].M31s # loaded[1][1].M31s
    /\ ScansAt(1) = ScansOf(StreamRadials(Len(ar2.LDMRecords)), 1)
                       \o ScansOf(loaded[2][1].M31s, 1) \o ScansOf(loaded[1][1].M31s, 1)
    /\ ScansOf(loaded[1][1].M31s, 1)[1].Header.AzimuthNumber
          > ScansOf(loaded[1][1].M31s, 1)[2].Header.AzimuthNumber

\* C25: when NewArchive2 returns a volume, every ElevationScans[k] is the
\* sequence, in stream order, of the Message 31s of all LDMRecords whose
\* elevation number is k, and the volume stores as many radials as the
\* LDMRecords hold.
C25_SequentialScansInStreamOrder ==
    (inputs = "file" /\ pc[0] = "done" /\ ret = "ok") =>
       /\ \A k \in ElevationNumbers :
             ScansAt(k) = ScansOf(StreamRadials(Len(ar2.LDMRecords)), k)
       /\ TotalRadials = RadialsOfRecords

\* two records with radials were decoded after the status record; elevation 1
\* holds the second record's radial, then the third record's two in their order
C25_Witness ==
    /\ inputs = "file" /\ pc[0] = "done" /\ ret = "ok"
    /\ Len(ar2.LDMRecords) = 3
    /\ \A i \in 2..3 : ScansOf(ar2.LDMRecords[i].M31s, 1) # <<>>
    /\ ar2.LDMRecords[2].M31s # ar2.LDMRecords[3].M31s
    /\ Len(ScansAt(1)) = 3
    /\ ScansAt(1)[1] = ar2.LDMRecords[2].M31s[1]
    /\ ScansAt(1)[2] # ScansAt(1)[1]
    /\ SubSeq(ScansAt(1), 2, 3) = ar2.LDMRecords[3].M31s
    /\ TotalRadials = 4

\* the goroutines whose LoadLDMRecord call returned an error
Failed == {c \in Workers : pc[c] \in {"ret", "done"} /\ lerr[c] # "nil"}

\* C26: in loadArchive2Realtime a goroutine whose load failed returns without
\* taking the lock and without changing the volume: ElevationScans, the status
\* slot, LDMOffsets and LDMRecords stay as the earlier merges left them, and the
\* goroutine never reaches AddFromLDMRecord.
C26_FailedChunkContributesNothing ==
    [][\A c \in Workers :
          (inputs = "chunks" /\ c \in Failed) =>
             /\ pc'[c] \in {"ret", "done"}
             /\ pc'[c] # pc[c] => (ar2' = ar2 /\ mtx' = mtx)]_vars

\* a goroutine failed after it had parsed a radial, returned, and the volume that
\* loadArchive2Realtime returns holds the other goroutine's merge and nothing else
C26_Witness ==
    /\ inputs = "chunks" /\ pc[0] = "returned"
    /\ 2 \in Failed /\ loaded[2] # NilPtr /\ loaded[2][1].M31s # <<>>
    /\ Merged = {1} /\ loaded[1][1].M31s # <<>>
    /\ ~LoadFailedAtSizeWord(lerr[2])
    /\ TotalRadials = RadialsOfRecords + Len(loaded[1][1].M31s)
    /\ Slot # NilPtr

\* the goroutines whose GetObject call returned an error
FetchFailed == {c \in Workers : pc[c] = "done" /\ loaded[c] = NilPtr /\ lerr[c] = "nil"}

\* C27: when loadArchive2Realtime returns a volume and a nil error, no chunk's
\* fetch or load had failed (the returned pair is all the caller gets, and
\* neither the volume nor the error names a chunk).
C27_FailedChunksReported ==
    (inputs = "chunks" /\ pc[0] = "returned" /\ ret = "ok") =>
       (Failed = {} /\ FetchFailed = {})

\* process p is inside LoadLDMRecord
Parsing(p) == pc[p] \in {"call", "msgs"}

\* C28: a step of LoadLDMRecord, whether it goes on, returns a record or returns
\* an error, leaves ElevationScans, the status slot, LDMOffsets and LDMRecords as
\* they were, and the process taking it does not hold the merge lock.
C28_ParsingWritesNoVolumeField ==
    [][\A p \in Proc :
          (Parsing(p) /\ <<pc[p], ipos[p], loaded[p], lerr[p]>>'
                            # <<pc[p], ipos[p], loaded[p], lerr[p]>>) =>
             /\ ar2' = ar2
             /\ (p \in Workers => mtx # p) /\ mtx' = mtx]_vars

\* a goroutine has parsed a status message its record now holds, the volume's
\* slot still holds the header chunk's, and meanwhile another goroutine is
\* inside AddFromLDMRecord with the lock
C28_Witness ==
    \E c, d \in Workers :
       /\ c # d /\ pc[c] = "msgs" /\ ipos[c] > 0
       /\ loaded[c][1].M2 # NilPtr /\ Slot # NilPtr /\ Slot # loaded[c][1].M2
       /\ mtx = d /\ pc[d] = "add"

\* C29: NewArchive2 returns a volume only when the read of a size word gave
\* io.EOF; when NewMessage31 returned io.EOF (the stream ended at a data block
\* header with blocks still expected), NewArchive2 returns an error, no volume.
C29_InnerEOFIsAnError ==
    /\ (inputs = "file" /\ pc[0] = "done" /\ ret = "ok") =>
          (lerr[0] = "EOF" /\ loaded[0] = NilPtr)
    /\ (inputs = "file" /\ pc[0] = "done" /\ lastMsg.type = 31 /\ lastMsg.err = "EOF") =>
          ret = "err"

(***************************************************************************)
(* NewArchive2 runs on its caller's goroutine and no step of it waits for  *)
(* anything but its reader, which is finite: a step that can be taken is   *)
(* taken.                                                                  *)
(***************************************************************************)
SpecLive == Init /\ [][Next]_vars /\ WF_vars(Next)

\* C30: on every finite source NewArchive2 eventually returns, a volume or an
\* error.
C30_NewArchive2Returns == <>(pc[0] = "done" /\ ret \in {"ok", "err"})


====
